---- MODULE Spec2Model ----
(***************************************************************************)
(* The snake game's state machine: the module-level variables of the       *)
(* script (snake, food, dx, dy, score, gameOver, paused, directionLock,    *)
(* intervalId, autoPauseEnabled), the repeating timers the host has armed, *)
(* and one action per handler the host can dispatch.  Handlers run to      *)
(* completion on one thread, so each is one atomic action.                 *)
(*                                                                         *)
(* Spec is the game as src/script.js has it: the timer callback gameLoop,  *)
(* setDirection (arrow keys, buttons, swipes), resetGame (R) and the pause *)
(* toggle (Space, pause button).  SpecSmart is the game as                 *)
(* src/unnamed/part_000 has it, which adds the visibilitychange handler    *)
(* and the auto-pause button to the same functions.                        *)
(*                                                                         *)
(* Drawing, sound synthesis, vibration, themes and hints do not feed back  *)
(* into these variables and are left out, except that what a handler       *)
(* signals (its sound, or the redraw of a plain move) is recorded in       *)
(* `event`, and the handler that ran last in `op`.  `moves` counts the     *)
(* Running ticks of the current game and exists only to bound the search;  *)
(* `tickDir` is the direction the last of them used, <<0, 0>> before the   *)
(* first.                                                                  *)
(***************************************************************************)
EXTENDS Integers, Sequences, FiniteSets

VARIABLES snake, food, dx, dy, score, gameOver, paused, directionLock,
          intervalId, timers, autoPauseEnabled, moves, tickDir, op,
          event

vars == <<snake, food, dx, dy, score, gameOver, paused, directionLock,
          intervalId, timers, autoPauseEnabled, moves, tickDir, op,
          event>>

\* The variables of the game proper (everything but the armed timers, the
\* auto-pause setting and the history variables moves, tickDir, op, event).
core == <<snake, food, dx, dy, score, gameOver, paused, directionLock>>

(***************************************************************************)
(* Program constants                                                       *)
(***************************************************************************)
START_SPEED_MS == 140
MIN_SPEED_MS == 60
SPEED_UP_EVERY == 3
SPEED_STEP_MS == 12
GOLDEN_POINTS == 3
StartX == 10
StartY == 10
\* const tileCount = canvas.width / gridSize, the side of the square grid.
\* The canvas element is not part of the script: a canvas 220 wide is taken,
\* which gives the smallest grid that holds the start cell (10,10).
tileCount == 11

(***************************************************************************)
(* Bounds of the model                                                     *)
(***************************************************************************)
\* randomFood() draws x from the last SampleCols columns of the grid and y
\* from its last SampleRows rows only.
SampleCols == 2
SampleRows == 3
\* Largest score given to getSpeedMs() and to the level line of drawHUD().
MaxScore == 32
\* Largest number of free cells in the bodies the spawn loop is run against.
MaxFree == 10
\* Longest body among the states a run of ticks alone is started from.
MaxBody == 4
\* Number of moving (Running) ticks explored per game.
MaxMoves == 5

(***************************************************************************)
(* Helpers                                                                 *)
(***************************************************************************)
Max(a, b) == IF a >= b THEN a ELSE b

Pos(x, y) == [x |-> x, y |-> y]

\* The four vectors the input handlers pass to setDirection.
Dirs == {<<0, -1>>, <<0, 1>>, <<-1, 0>>, <<1, 0>>}

\* Variant: Math.round in place of Math.floor, which can give tileCount.
RandomX_rounded == (tileCount - SampleCols)..tileCount

\* Values of Math.floor(Math.random() * tileCount) drawn for x and for y.
RandomX == (tileCount - SampleCols)..(tileCount - 1)
RandomY == (tileCount - SampleRows)..(tileCount - 1)

FoodTypes == {"golden", "normal"}

\* snake.some(p => p.x === q.x && p.y === q.y)
onSnake(s, q) == \E i \in 1..Len(s) : s[i].x = q.x /\ s[i].y = q.y

\* Variant: the interval is not held at MIN_SPEED_MS.
getSpeedMs_noFloor(sc) ==
  LET level == sc \div SPEED_UP_EVERY
  IN START_SPEED_MS - level * SPEED_STEP_MS

\* getSpeedMs(): the interval for a score.
getSpeedMs(sc) ==
  LET level == sc \div SPEED_UP_EVERY
      speed == START_SPEED_MS - level * SPEED_STEP_MS
  IN Max(MIN_SPEED_MS, speed)

\* The level drawHUD() shows for a score.
drawHUD_level(sc) == sc \div SPEED_UP_EVERY + 1

\* Variant: the sampled cell is returned without the onSnake test.
randomFood_unchecked(s) == [x : RandomX, y : RandomY, type : FoodTypes]

\* randomFood(): the values the rejection loop can return for body s (it
\* returns the first sampled cell that is not on the snake).
randomFood(s) ==
  {f \in [x : RandomX, y : RandomY, type : FoodTypes] : ~onSnake(s, f)}

\* setInterval(): the id of a newly armed timer, a positive integer that no
\* armed timer has.
setInterval(T) ==
  CHOOSE n \in 1..(Cardinality(T) + 1) : \A t \in T : t.id # n

\* clearInterval(id)
clearInterval(T, id) == {t \in T : t.id # id}

\* Variant: the timer intervalId names is not cleared.
startLoop_noClear(T, id, sc) ==
  LET n == setInterval(T)
  IN [timers |-> T \cup {[id |-> n, ms |-> getSpeedMs(sc)]}, intervalId |-> n]

\* startLoop(): clear the timer intervalId names, if any, and arm a new one
\* with the interval for score sc.  Gives the new timers and intervalId.
startLoop(T, id, sc) ==
  LET T1 == IF id # 0 THEN clearInterval(T, id) ELSE T
      n  == setInterval(T1)
  IN [timers |-> T1 \cup {[id |-> n, ms |-> getSpeedMs(sc)]}, intervalId |-> n]

\* Variant: every food is worth one point.
points_flat(f) == 1

\* Variant: a normal food takes a point away.
points_signSlip(f) == IF f.type = "golden" THEN GOLDEN_POINTS ELSE -1

\* Points for the food eaten.
points(f) == IF f.type = "golden" THEN GOLDEN_POINTS ELSE 1

\* Variant: the last cell of the array is taken for the head.
newHead_fromTail(s, ddx, ddy) == Pos(s[Len(s)].x + ddx, s[Len(s)].y + ddy)

\* const newHead = { x: head.x + dx, y: head.y + dy }
newHead(s, ddx, ddy) == Pos(s[1].x + ddx, s[1].y + ddy)

\* Variant: > in place of >= at the far walls.
hitsWall_offByOne(h) ==
  h.x < 0 \/ h.x > tileCount \/ h.y < 0 \/ h.y > tileCount

\* Variant: the far walls are not tested.
hitsWall_nearOnly(h) == h.x < 0 \/ h.y < 0

\* The wall test of update().
hitsWall(h) == h.x < 0 \/ h.x >= tileCount \/ h.y < 0 \/ h.y >= tileCount

\* Variant: snake.shift(), which removes the first cell.
pop_shift(s) == SubSeq(s, 2, Len(s))

\* snake.pop()
pop(s) == SubSeq(s, 1, Len(s) - 1)

\* Variant: the tail cell, which a plain move vacates, is not tested.
hitsSelf_sparesTail(s, h) == onSnake(pop(s), h)

\* Variant: no self-collision test.
hitsSelf_never(s, h) == FALSE

\* The self-collision test of update(): against the whole current body.
hitsSelf(s, h) == onSnake(s, h)

\* Variant: the coordinates of the food are taken the wrong way round.
eats_swapped(h, f) == h.x = f.y /\ h.y = f.x

\* The food test of update().
eats(h, f) == h.x = f.x /\ h.y = f.y

\* Variant: the test compares with the current direction, not its opposite.
isReverse_sameSign(a, b, ddx, ddy) == a = ddx /\ b = ddy

\* Variant: only a horizontal reversal is recognised.
isReverse_horizontalOnly(a, b, ddx, ddy) == a = -ddx /\ a # 0

\* Variant: no direction is taken for a reversal.
isReverse_never(a, b, ddx, ddy) == FALSE

\* The reverse test of setDirection().
isReverse(a, b, ddx, ddy) == a = -ddx /\ b = -ddy

(***************************************************************************)
(* Initial state: the script has run to its end, whose last statement is   *)
(* resetGame().                                                            *)
(***************************************************************************)
Init ==
  /\ snake = <<Pos(StartX, StartY)>>
  /\ dx = 1 /\ dy = 0
  /\ score = 0
  /\ gameOver = FALSE
  /\ paused = FALSE
  /\ directionLock = FALSE
  /\ food \in randomFood(snake)
  /\ LET r == startLoop({}, 0, 0)
     IN timers = r.timers /\ intervalId = r.intervalId
  /\ autoPauseEnabled = TRUE
  /\ moves = 0
  /\ tickDir = <<0, 0>>
  /\ op = "resetGame"
  /\ event = "reset"

(***************************************************************************)
(* resetGame()                                                             *)
(***************************************************************************)
\* Variant: the score is not set back to 0.
resetGame_keepsScore ==
  /\ snake' = <<Pos(StartX, StartY)>>
  /\ dx' = 1 /\ dy' = 0
  /\ gameOver' = FALSE
  /\ paused' = FALSE
  /\ directionLock' = FALSE
  /\ food' \in randomFood(snake')
  /\ LET r == startLoop(timers, intervalId, score)
     IN timers' = r.timers /\ intervalId' = r.intervalId
  /\ moves' = 0
  /\ tickDir' = <<0, 0>>
  /\ op' = "resetGame"
  /\ event' = "reset"
  /\ UNCHANGED <<score, autoPauseEnabled>>

\* Variant: the paused flag is not cleared.
resetGame_keepsPaused ==
  /\ snake' = <<Pos(StartX, StartY)>>
  /\ dx' = 1 /\ dy' = 0
  /\ score' = 0
  /\ gameOver' = FALSE
  /\ directionLock' = FALSE
  /\ food' \in randomFood(snake')
  /\ LET r == startLoop(timers, intervalId, score')
     IN timers' = r.timers /\ intervalId' = r.intervalId
  /\ moves' = 0
  /\ tickDir' = <<0, 0>>
  /\ op' = "resetGame"
  /\ event' = "reset"
  /\ UNCHANGED <<paused, autoPauseEnabled>>

resetGame ==
  /\ snake' = <<Pos(StartX, StartY)>>
  /\ dx' = 1 /\ dy' = 0
  /\ score' = 0
  /\ gameOver' = FALSE
  /\ paused' = FALSE
  /\ directionLock' = FALSE
  /\ food' \in randomFood(snake')
  /\ LET r == startLoop(timers, intervalId, score')
     IN timers' = r.timers /\ intervalId' = r.intervalId
  /\ moves' = 0
  /\ tickDir' = <<0, 0>>
  /\ op' = "resetGame"
  /\ event' = "reset"
  /\ UNCHANGED autoPauseEnabled

(***************************************************************************)
(* gameLoop(): the callback of an armed timer.  update() and the clearing  *)
(* of the direction lock are part of it.                                   *)
(***************************************************************************)
\* Variant: the early return tests gameOver only.
gameLoopSkips_ignoresPause == gameOver

\* The early return of gameLoop().
gameLoopSkips == gameOver \/ paused

\* endGame(), as update() calls it.
endGame ==
  /\ gameOver' = TRUE
  /\ event' = "collided"
  /\ UNCHANGED <<snake, food, score, timers, intervalId>>

\* Variant: the eating branch does not call startLoop().
advance_noRearm(h) ==
  IF eats(h, food)
  THEN /\ snake' = <<h>> \o snake
       /\ score' = score + points(food)
       /\ food' \in randomFood(snake')
       /\ event' = IF food.type = "golden" THEN "ateGolden" ELSE "ate"
       /\ UNCHANGED <<timers, intervalId, gameOver>>
  ELSE /\ snake' = pop(<<h>> \o snake)
       /\ event' = "moved"
       /\ UNCHANGED <<food, score, timers, intervalId, gameOver>>

\* update() past both collision tests.
advance(h) ==
  IF eats(h, food)
  THEN /\ snake' = <<h>> \o snake
       /\ score' = score + points(food)
       /\ food' \in randomFood(snake')
       /\ LET r == startLoop(timers, intervalId, score')
          IN timers' = r.timers /\ intervalId' = r.intervalId
       /\ event' = IF food.type = "golden" THEN "ateGolden" ELSE "ate"
       /\ UNCHANGED gameOver
  ELSE /\ snake' = pop(<<h>> \o snake)
       /\ event' = "moved"
       /\ UNCHANGED <<food, score, timers, intervalId, gameOver>>

update ==
  LET h == newHead(snake, dx, dy)
  IN IF hitsWall(h) THEN endGame
     ELSE IF hitsSelf(snake, h) THEN endGame
     ELSE advance(h)

\* Variant: the direction lock is not cleared after update().
gameLoop_keepsLock ==
  /\ \E t \in timers : TRUE
  /\ op' = "gameLoop"
  /\ IF gameLoopSkips
     THEN /\ event' = "none"
          /\ UNCHANGED <<core, timers, intervalId, autoPauseEnabled, moves,
                         tickDir>>
     ELSE /\ moves < MaxMoves
          /\ moves' = moves + 1
          /\ tickDir' = <<dx, dy>>
          /\ update
          /\ UNCHANGED <<dx, dy, paused, directionLock, autoPauseEnabled>>

gameLoop ==
  /\ \E t \in timers : TRUE
  /\ op' = "gameLoop"
  /\ IF gameLoopSkips
     THEN /\ event' = "none"
          /\ UNCHANGED <<core, timers, intervalId, autoPauseEnabled, moves,
                         tickDir>>
     ELSE /\ moves < MaxMoves
          /\ moves' = moves + 1
          /\ tickDir' = <<dx, dy>>
          /\ update
          /\ directionLock' = FALSE
          /\ UNCHANGED <<dx, dy, paused, autoPauseEnabled>>

(***************************************************************************)
(* setDirection(newDx, newDy)                                              *)
(***************************************************************************)
\* Variant: no directionLock test.
setDirectionRejects_noLock(a, b) ==
  \/ gameOver
  \/ isReverse(a, b, dx, dy)

\* Variant: no gameOver test.
setDirectionRejects_whenOver(a, b) ==
  \/ directionLock
  \/ isReverse(a, b, dx, dy)

\* Variant: a call with the current direction returns early too.
setDirectionRejects_sameDirection(a, b) ==
  \/ gameOver
  \/ directionLock
  \/ isReverse(a, b, dx, dy)
  \/ (a = dx /\ b = dy)

\* The guards of setDirection(): TRUE when the call returns early.
setDirectionRejects(a, b) ==
  \/ gameOver
  \/ directionLock
  \/ isReverse(a, b, dx, dy)

\* Variant: an accepted call assigns dx only.
setDirection_dropsDy(a, b) ==
  /\ op' = "setDirection"
  /\ IF setDirectionRejects(a, b)
     THEN /\ event' = "none"
          /\ UNCHANGED <<dx, dy, directionLock>>
     ELSE /\ dx' = a
          /\ dy' = dy
          /\ directionLock' = TRUE
          /\ event' = "turn"
  /\ UNCHANGED <<snake, food, score, gameOver, paused, intervalId, timers,
                 autoPauseEnabled, moves, tickDir>>

setDirection(a, b) ==
  /\ op' = "setDirection"
  /\ IF setDirectionRejects(a, b)
     THEN /\ event' = "none"
          /\ UNCHANGED <<dx, dy, directionLock>>
     ELSE /\ dx' = a
          /\ dy' = b
          /\ directionLock' = TRUE
          /\ event' = "turn"
  /\ UNCHANGED <<snake, food, score, gameOver, paused, intervalId, timers,
                 autoPauseEnabled, moves, tickDir>>

(***************************************************************************)
(* The pause toggle of the Space key and of the pause button.              *)
(***************************************************************************)
\* Variant: the toggle does not test gameOver.
togglePause_whenOver ==
  /\ op' = "togglePause"
  /\ paused' = ~paused /\ event' = "pause"
  /\ UNCHANGED <<snake, food, dx, dy, score, gameOver, directionLock,
                 intervalId, timers, autoPauseEnabled, moves, tickDir>>

togglePause ==
  /\ op' = "togglePause"
  /\ IF ~gameOver
     THEN paused' = ~paused /\ event' = "pause"
     ELSE UNCHANGED paused /\ event' = "none"
  /\ UNCHANGED <<snake, food, dx, dy, score, gameOver, directionLock,
                 intervalId, timers, autoPauseEnabled, moves, tickDir>>

(***************************************************************************)
(* handleVisibilityChange(), with document.hidden as its input.            *)
(***************************************************************************)
\* Variant: the page becoming hidden pauses whatever autoPauseEnabled says.
handleVisibilityChange_ignoresSetting(hidden) ==
  /\ op' = IF hidden THEN "hidden" ELSE "visible"
  /\ IF hidden /\ ~gameOver /\ ~paused
     THEN paused' = TRUE /\ event' = "autoPaused"
     ELSE UNCHANGED paused /\ event' = "none"
  /\ UNCHANGED <<snake, food, dx, dy, score, gameOver, directionLock,
                 intervalId, timers, autoPauseEnabled, moves, tickDir>>

\* Variant: the page becoming hidden pauses a game that is over too.
handleVisibilityChange_whenOver(hidden) ==
  /\ op' = IF hidden THEN "hidden" ELSE "visible"
  /\ IF hidden /\ autoPauseEnabled /\ ~paused
     THEN paused' = TRUE /\ event' = "autoPaused"
     ELSE UNCHANGED paused /\ event' = "none"
  /\ UNCHANGED <<snake, food, dx, dy, score, gameOver, directionLock,
                 intervalId, timers, autoPauseEnabled, moves, tickDir>>

handleVisibilityChange(hidden) ==
  /\ op' = IF hidden THEN "hidden" ELSE "visible"
  /\ IF hidden /\ autoPauseEnabled /\ ~gameOver /\ ~paused
     THEN paused' = TRUE /\ event' = "autoPaused"
     ELSE UNCHANGED paused /\ event' = "none"
  /\ UNCHANGED <<snake, food, dx, dy, score, gameOver, directionLock,
                 intervalId, timers, autoPauseEnabled, moves, tickDir>>

(***************************************************************************)
(* The click handler of the auto-pause button.                             *)
(***************************************************************************)
toggleAutoPause ==
  /\ op' = "toggleAutoPause"
  /\ autoPauseEnabled' = ~autoPauseEnabled
  /\ event' = "none"
  /\ UNCHANGED <<core, intervalId, timers, moves, tickDir>>

SetDirectionInput == \E d \in Dirs : setDirection(d[1], d[2])

VisibilityInput == \E hidden \in BOOLEAN : handleVisibilityChange(hidden)

\* The game of src/script.js: timer, direction input, restart and pause.
Next ==
  \/ gameLoop
  \/ SetDirectionInput
  \/ resetGame
  \/ togglePause

Spec == Init /\ [][Next]_vars

\* The game with the page-visibility and auto-pause handlers added.
NextSmart ==
  \/ Next
  \/ VisibilityInput
  \/ toggleAutoPause

SpecSmart == Init /\ [][NextSmart]_vars

(***************************************************************************)
(* The speed curve on its own: getSpeedMs() reads nothing but score, so a   *)
(* score is drawn from 0..MaxScore and startLoop() arms the timer for it.   *)
(***************************************************************************)
InitSpeed ==
  /\ score \in 0..MaxScore
  /\ snake = <<Pos(StartX, StartY)>>
  /\ dx = 1 /\ dy = 0
  /\ gameOver = FALSE
  /\ paused = FALSE
  /\ directionLock = FALSE
  /\ food \in randomFood(snake)
  /\ timers = {} /\ intervalId = 0
  /\ autoPauseEnabled = TRUE
  /\ moves = 0
  /\ tickDir = <<0, 0>>
  /\ op = "score"
  /\ event = "none"

\* The next score to look at.
scoreInput ==
  /\ score' \in 0..MaxScore
  /\ op' = "score"
  /\ UNCHANGED <<snake, food, dx, dy, gameOver, paused, directionLock,
                 intervalId, timers, autoPauseEnabled, moves, tickDir, event>>

\* A call of startLoop() with the current score.
startLoopCall ==
  /\ LET r == startLoop(timers, intervalId, score)
     IN timers' = r.timers /\ intervalId' = r.intervalId
  /\ op' = "startLoop"
  /\ UNCHANGED <<core, autoPauseEnabled, moves, tickDir, event>>

NextSpeed ==
  \/ scoreInput
  \/ startLoopCall

SpecSpeed == InitSpeed /\ [][NextSpeed]_vars

(***************************************************************************)
(* The loop of randomFood() step by step, one sample per step, inside an    *)
(* eating tick: the body has its new head, food is still the food just      *)
(* eaten.  The bodies are those that fill the grid along its rows, back and *)
(* forth from (0,0), up to a head that leaves at most MaxFree cells free.   *)
(* Samples are drawn from the whole grid.  Math.random() is taken to be     *)
(* fair: a loop that runs forever draws every cell again and again, so a    *)
(* return that stays possible is eventually taken.                          *)
(***************************************************************************)
gridCells == tileCount * tileCount

\* The i-th cell of the path along the rows, i in 1..gridCells.
pathCell(i) ==
  LET row == (i - 1) \div tileCount
      col == (i - 1) % tileCount
  IN Pos(IF row % 2 = 0 THEN col ELSE tileCount - 1 - col, row)

\* The body of len cells on that path, tail at (0,0).
pathBody(len) == [i \in 1..len |-> pathCell(len + 1 - i)]

\* const f = { x: ..., y: ..., type: ... }, over the whole grid.
Samples == [x : 0..(tileCount - 1), y : 0..(tileCount - 1), type : FoodTypes]

\* Variant: the sample is returned whatever the onSnake test says.
randomFoodAccepts_always(s, f) == TRUE

\* if (!onSnake) return f
randomFoodAccepts(s, f) == ~onSnake(s, f)

InitSpawn ==
  /\ \E free \in 0..MaxFree : snake = pathBody(gridCells - free)
  /\ \E type \in FoodTypes : food = [x |-> snake[1].x, y |-> snake[1].y, type |-> type]
  /\ dx = snake[1].x - snake[2].x
  /\ dy = snake[1].y - snake[2].y
  /\ score = Len(snake) - 1
  /\ gameOver = FALSE
  /\ paused = FALSE
  /\ directionLock = FALSE
  /\ timers = {[id |-> 1, ms |-> MIN_SPEED_MS]} /\ intervalId = 1
  /\ autoPauseEnabled = TRUE
  /\ moves = 0
  /\ tickDir = <<dx, dy>>
  /\ op = "randomFood"
  /\ event = "sampling"

\* One pass of the loop whose sample is on the snake: the loop goes on.
randomFoodRejects ==
  /\ event \in {"sampling", "rejected"}
  /\ {f \in Samples : ~randomFoodAccepts(snake, f)} # {}
  /\ event' = "rejected"
  /\ UNCHANGED <<core, intervalId, timers, autoPauseEnabled, moves, tickDir,
                 op>>

\* One pass of the loop whose sample is returned and assigned to food.
randomFoodReturns ==
  /\ event \in {"sampling", "rejected"}
  /\ food' \in {f \in Samples : randomFoodAccepts(snake, f)}
  /\ event' = "returned"
  /\ UNCHANGED <<snake, dx, dy, score, gameOver, paused, directionLock,
                 intervalId, timers, autoPauseEnabled, moves, tickDir, op>>

NextSpawn ==
  \/ randomFoodRejects
  \/ randomFoodReturns

SpecSpawn == InitSpawn /\ [][NextSpawn]_vars /\ WF_vars(randomFoodReturns)

(***************************************************************************)
(* The timer left to itself: from a Running state, gameLoop() is the only   *)
(* handler that runs.  The states it starts from are the bodies of up to    *)
(* MaxBody cells, of every shape, whose head is on one of the first         *)
(* SampleRows rows, with every direction such a body can have; the lock is  *)
(* set where the direction differs from the one the body last moved by.     *)
(* The budget of ticks is tileCount here, and the timer, being a repeating  *)
(* one, keeps firing.                                                       *)
(***************************************************************************)
RECURSIVE trail(_, _, _)
\* The body with head h whose cell i + 1 lies at steps[i] from its cell i.
trail(h, steps, i) ==
  IF i > Len(steps) THEN <<h>>
  ELSE <<h>> \o trail(Pos(h.x + steps[i][1], h.y + steps[i][2]), steps, i + 1)

RunBodies ==
  {b \in {trail(Pos(x, y), steps, 1) :
             x \in 0..(tileCount - 1), y \in 0..(SampleRows - 1),
             steps \in UNION {[1..n -> Dirs] : n \in 0..(MaxBody - 1)}} :
     /\ \A i \in 1..Len(b) : ~hitsWall(b[i])
     /\ \A i, j \in 1..Len(b) : i # j => b[i] # b[j]}

InitRun ==
  /\ snake \in RunBodies
  /\ \E d \in Dirs :
       /\ dx = d[1] /\ dy = d[2]
       /\ Len(snake) >= 2 => ~isReverse(d[1], d[2], snake[1].x - snake[2].x,
                                        snake[1].y - snake[2].y)
  /\ tickDir = IF Len(snake) >= 2
               THEN <<snake[1].x - snake[2].x, snake[1].y - snake[2].y>>
               ELSE <<dx, dy>>
  /\ directionLock = (tickDir # <<dx, dy>>)
  /\ score = Len(snake) - 1
  /\ gameOver = FALSE
  /\ paused = FALSE
  /\ food \in randomFood(snake)
  /\ LET r == startLoop({}, 0, score)
     IN timers = r.timers /\ intervalId = r.intervalId
  /\ autoPauseEnabled = TRUE
  /\ moves = MaxMoves - tileCount
  /\ op = "gameLoop"
  /\ event = "moved"

NextRun == gameLoop

SpecRun == InitRun /\ [][NextRun]_vars /\ WF_vars(gameLoop)

(***************************************************************************)
(* Properties                                                              *)
(***************************************************************************)
Running == ~gameOver /\ ~paused

\* The cell the next moving tick would enter.
ahead == newHead(snake, dx, dy)

InGrid(p) == 0 <= p.x /\ p.x < tileCount /\ 0 <= p.y /\ p.y < tileCount

\* Some cell of the grid is not a cell of the body.
freeCellExists ==
  \E x, y \in 0..(tileCount - 1) : ~onSnake(snake, [x |-> x, y |-> y])

\* Running ticks since the start of a run of ticks alone.
ticksRun == moves - (MaxMoves - tileCount)

tailCell(s) == s[Len(s)]

\* C1: a timer tick that fires while the game is paused or over changes
\* nothing -- body, direction, direction lock, food, score, the paused and
\* gameOver flags and the armed timer all keep their values -- and produces
\* no outcome.
C1_TickNoOpUnlessRunning ==
  [][(op' = "gameLoop" /\ (paused \/ gameOver))
       => (UNCHANGED <<core, timers, intervalId>> /\ event' = "none")]_vars

\* A tick has fired on a paused game that had already grown.
C1_Witness ==
  op = "gameLoop" /\ event = "none" /\ paused /\ ~gameOver /\ Len(snake) > 1

\* C2: a Running tick whose new head lies outside the grid sets gameOver and
\* leaves body, score and food unchanged; the collision is signalled once:
\* gameOver stays set until a reset, and no tick fired while it is set
\* signals a collision again.
C2_WallCollision ==
  [][/\ (op' = "gameLoop" /\ Running /\ ~InGrid(ahead))
          => (gameOver' /\ event' = "collided" /\ UNCHANGED <<snake, score, food>>)
     /\ (gameOver /\ op' # "resetGame") => gameOver'
     /\ (gameOver /\ op' = "gameLoop") => event' # "collided"]_vars

\* The head ran into a wall, and a later tick fired without a reset.
C2_Witness ==
  gameOver /\ ~InGrid(ahead) /\ op = "gameLoop" /\ event = "none"

\* C3: a Running tick whose new head is inside the grid and equals any cell
\* of the current body, the tail cell included, sets gameOver and leaves
\* body, score and food unchanged.
C3_SelfCollision ==
  [][(op' = "gameLoop" /\ Running /\ InGrid(ahead) /\ onSnake(snake, ahead))
       => (gameOver' /\ event' = "collided" /\ UNCHANGED <<snake, score, food>>)]_vars

\* The head ran into the tail cell.
C3_Witness ==
  /\ gameOver /\ event = "collided"
  /\ InGrid(ahead)
  /\ Len(snake) >= 4
  /\ ahead = tailCell(snake)

\* C4: a Running tick that does not collide adds the food's points (3 for
\* golden, 1 for normal) to the score and one cell to the body when the new
\* head is on the food, and otherwise leaves score and body length as they
\* were.
C4_EatOrMove ==
  [][(op' = "gameLoop" /\ Running /\ InGrid(ahead) /\ ~onSnake(snake, ahead))
       => IF ahead.x = food.x /\ ahead.y = food.y
          THEN /\ score' = score + (IF food.type = "golden" THEN 3 ELSE 1)
               /\ Len(snake') = Len(snake) + 1
          ELSE /\ score' = score
               /\ Len(snake') = Len(snake)]_vars

\* A golden food and then a normal one have been eaten.
C4_Witness ==
  event = "ate" /\ score = 4 /\ Len(snake) = 3

\* C5: while the game is Running the body is not empty and no two of its
\* cells are equal.
C5_BodyDistinct ==
  Running =>
    /\ Len(snake) >= 1
    /\ \A i, j \in 1..Len(snake) : i # j => snake[i] # snake[j]

\* A Running body of five cells whose head faces a cell of the body that is
\* not the tail.
C5_Witness ==
  /\ Running
  /\ Len(snake) = 5
  /\ onSnake(snake, ahead)
  /\ ahead # tailCell(snake)

\* C6: every cell of the body and the food lie inside the grid.
C6_InsideGrid ==
  /\ \A i \in 1..Len(snake) : InGrid(snake[i])
  /\ InGrid(food)

\* The game ended at a wall with the head on the border, and next to the
\* far wall with food on the border column.
C6_Witness ==
  /\ gameOver /\ ~InGrid(ahead) /\ InGrid(snake[1])
  /\ food.x = tileCount - 1

\* C7: right after food is spawned (by a reset or by an eating tick) its
\* position is not a cell of the body as it is then: the single start cell
\* after a reset, the grown body with its new head after eating.
C7_SpawnOffBody ==
  /\ event = "reset" => (snake = <<Pos(StartX, StartY)>> /\ ~onSnake(snake, food))
  /\ event \in {"ate", "ateGolden"} => ~onSnake(snake, food)

\* Food has just been spawned against a body of four cells.
C7_Witness ==
  event \in {"ate", "ateGolden"} /\ Len(snake) = 4 /\ ~onSnake(snake, food)

\* C8: setDirection with the opposite of the current direction is rejected
\* -- direction and direction lock keep their values and no turn is
\* signalled -- and the rejected call does not use up the turn: if the lock
\* is clear and the game is not over, the next setDirection call with a
\* direction that is not the opposite is accepted.
C8_ReversalRejected ==
  [][/\ setDirection(-dx, -dy)
          => (UNCHANGED <<dx, dy, directionLock>> /\ event' = "none")
     /\ (op = "setDirection" /\ event = "none" /\ ~directionLock /\ ~gameOver)
          => \A d \in Dirs :
               (setDirection(d[1], d[2]) /\ ~(d[1] = -dx /\ d[2] = -dy))
                 => (dx' = d[1] /\ dy' = d[2] /\ directionLock' /\ event' = "turn")]_vars

\* A reversal was rejected on a Running game whose lock is clear (the
\* reversal is the only call rejected in such a state).
C8_Witness ==
  op = "setDirection" /\ event = "none" /\ ~directionLock /\ Running

\* C9: once a setDirection call has been accepted (which sets the lock, and
\* only a Running tick or a reset clears it), every further setDirection
\* call before the next Running tick is ignored, and that tick moves the
\* head by the accepted direction and leaves it as the current direction.
C9_OneTurnPerTick ==
  [][/\ (directionLock /\ op' = "setDirection")
          => (UNCHANGED <<dx, dy, directionLock>> /\ event' = "none")
     /\ (op' = "setDirection" /\ event' = "turn")
          => (directionLock' /\ ~directionLock)
     /\ (directionLock /\ ~directionLock')
          => (op' = "resetGame" \/ (op' = "gameLoop" /\ Running))
     /\ (directionLock /\ op' = "gameLoop" /\ Running)
          => /\ dx' = dx /\ dy' = dy
             /\ event' \in {"moved", "ate", "ateGolden"}
                  => snake'[1] = Pos(snake[1].x + dx, snake[1].y + dy)]_vars

\* Up was accepted from the initial direction (1,0), and a further call was
\* ignored.
C9_Witness ==
  /\ op = "setDirection" /\ event = "none"
  /\ directionLock /\ Running
  /\ dx = 0 /\ dy = -1

\* C10: setDirection is a no-op whenever the game is not Running: called
\* while paused or over it leaves direction and lock unchanged and signals
\* no turn.
C10_NoTurnUnlessRunning ==
  [][(op' = "setDirection" /\ ~Running)
       => (UNCHANGED <<dx, dy, directionLock>> /\ event' = "none")]_vars

\* C11: resetGame, from any reachable state (Running, Paused or Over), gives
\* the body [(10,10)], direction (1,0), score 0, a game that is neither
\* paused nor over, a clear direction lock, a food inside the grid that is
\* not the start cell, and one armed timer of 140 ms; a reset that follows a
\* reset changes nothing but the food.
C11_ResetState ==
  [][/\ op' = "resetGame"
          => /\ snake' = <<[x |-> 10, y |-> 10]>>
             /\ dx' = 1 /\ dy' = 0
             /\ score' = 0
             /\ ~gameOver' /\ ~paused'
             /\ ~directionLock'
             /\ InGrid(food') /\ ~(food'.x = 10 /\ food'.y = 10)
             /\ Cardinality(timers') = 1
             /\ \A t \in timers' : t.ms = 140 /\ t.id = intervalId'
     /\ (op = "resetGame" /\ op' = "resetGame")
          => UNCHANGED <<snake, dx, dy, score, gameOver, paused,
                         directionLock, timers, intervalId>>]_vars

\* The state a reset leaves.
C11_Witness ==
  /\ op = "resetGame" /\ event = "reset"
  /\ snake = <<[x |-> 10, y |-> 10]>>
  /\ score = 0 /\ Running
  /\ timers = {[id |-> intervalId, ms |-> 140]}

\* C12: the pause toggle turns Running into Paused and Paused into Running
\* and does nothing when the game is over; it never changes body, direction,
\* score or food; and a tick fired while paused changes none of the game's
\* variables, so that resuming finds the state that was paused.
C12_TogglePause ==
  [][/\ op' = "togglePause"
          => /\ UNCHANGED <<snake, dx, dy, score, food, gameOver>>
             /\ paused' = IF gameOver THEN paused ELSE ~paused
     /\ (paused /\ op' = "gameLoop")
          => UNCHANGED <<snake, dx, dy, score, food, gameOver, paused,
                         directionLock, timers, intervalId>>]_vars

\* A grown game has been resumed by the toggle.
C12_Witness ==
  op = "togglePause" /\ event = "pause" /\ Running /\ Len(snake) > 1

\* C13: once the game is over, no tick, setDirection call or pause toggle
\* changes the gameOver and paused flags, the body, the direction, the score
\* or the food; gameOver is cleared by resetGame only, which leaves the game
\* Running.
C13_OverIsTerminal ==
  [][/\ (gameOver /\ op' \in {"gameLoop", "setDirection", "togglePause"})
          => UNCHANGED <<gameOver, paused, snake, dx, dy, score, food>>
     /\ (gameOver /\ ~gameOver')
          => (op' = "resetGame" /\ ~paused')]_vars

\* A setDirection call has been made on a game that is over.
C13_Witness ==
  gameOver /\ op = "setDirection" /\ event = "none" /\ Len(snake) > 1

\* C14: the score is a natural number; a tick, a setDirection call or a
\* pause toggle never lowers it; a step that lowers it is a resetGame, which
\* sets it to 0.
C14_ScoreMonotone ==
  [][/\ score \in Nat /\ score' \in Nat
     /\ op' \in {"gameLoop", "setDirection", "togglePause"} => score' >= score
     /\ score' < score => (op' = "resetGame" /\ score' = 0)
     /\ op' = "resetGame" => score' = 0]_vars

\* The score has grown twice in one game.
C14_Witness ==
  event = "ate" /\ score = 2 /\ Len(snake) = 3

\* C15: for every score the timer is armed with max(60, 140 - 12 *
\* floor(score / 3)) ms: 140 at 0, 128 at 3, 116 at 6, 60 at 30, never more
\* for a higher score than for a lower one, and always within [60, 140];
\* the level shown is floor(score / 3) + 1.
C15_SpeedCurve ==
  /\ op = "startLoop" =>
       /\ Cardinality(timers) = 1
       /\ \A t \in timers :
            /\ t.ms = IF 140 - 12 * (score \div 3) > 60
                      THEN 140 - 12 * (score \div 3) ELSE 60
            /\ 60 <= t.ms /\ t.ms <= 140
            /\ score = 0 => t.ms = 140
            /\ score = 3 => t.ms = 128
            /\ score = 6 => t.ms = 116
            /\ score = 30 => t.ms = 60
            /\ \A lower \in 0..score : getSpeedMs(lower) >= t.ms
  /\ drawHUD_level(score) = (score \div 3) + 1
  /\ score < 3 => drawHUD_level(score) = 1

\* The timer has been armed for score 30, where the interval is held at 60.
C15_Witness ==
  op = "startLoop" /\ score = 30 /\ timers = {[id |-> 1, ms |-> 60]}

\* C16: at most one repeating timer is armed in every reachable state, and
\* it is the one intervalId names: each re-arm, by a reset or by an eating
\* tick from inside the timer's own callback, has cleared the timer armed
\* before.
C16_OneTimer ==
  /\ Cardinality(timers) <= 1
  /\ \A t \in timers : t.id = intervalId

\* An eating tick has re-armed the timer with a shorter interval.
C16_Witness ==
  /\ event \in {"ate", "ateGolden"}
  /\ score >= 3
  /\ \E t \in timers : t.ms < 140

\* C17: the food spawner returns, given fair sampling, exactly when some
\* cell of the grid is not on the body: with a free cell the loop eventually
\* returns a food that is off the body, and once an eating tick has made the
\* body cover the whole grid the loop never returns, so that tick never
\* completes.
C17_SpawnTerminates ==
  /\ (freeCellExists /\ op = "randomFood") ~> (event = "returned")
  /\ [](event = "returned" => (freeCellExists /\ ~onSnake(snake, food)))
  /\ [](~freeCellExists => [](event # "returned"))

\* The loop has drawn a sample against a body that covers the whole grid.
C17_Witness ==
  /\ op = "randomFood" /\ event = "rejected"
  /\ Len(snake) = tileCount * tileCount
  /\ \A x, y \in 0..(tileCount - 1) : onSnake(snake, [x |-> x, y |-> y])

\* C18: in every reachable state the direction (dx, dy) is one of (1,0),
\* (-1,0), (0,1), (0,-1), and so never (0,0); the input handlers pass these
\* four vectors only.
C18_UnitDirection ==
  /\ <<dx, dy>> \in {<<1, 0>>, <<-1, 0>>, <<0, 1>>, <<0, -1>>}
  /\ <<dx, dy>> # <<0, 0>>

\* A turn to the left, the opposite of the initial direction, has been
\* accepted.
C18_Witness ==
  op = "setDirection" /\ event = "turn" /\ dx = -1 /\ dy = 0

\* C19: whatever setDirection calls, ticks, pause toggles and resets come
\* between, a Running tick never uses the exact opposite of the direction
\* the Running tick before it in the same game used; and in every state
\* whose body has two cells or more, the cell ahead of the head is not the
\* second cell of the body.
C19_NoReversalBetweenTicks ==
  /\ [][(op' = "gameLoop" /\ Running /\ tickDir # <<0, 0>>)
          => <<dx, dy>> # <<-tickDir[1], -tickDir[2]>>]_vars
  /\ [](Len(snake) >= 2
          => ~(snake[1].x + dx = snake[2].x /\ snake[1].y + dy = snake[2].y))

\* A tick has moved the head left after an earlier tick moved it up: the
\* direction changed between two ticks, by a turn that is not a reversal.
C19_Witness ==
  /\ op = "gameLoop" /\ Len(snake) >= 3
  /\ tickDir = <<-1, 0>> /\ dx = -1 /\ dy = 0
  /\ snake[2].y = snake[3].y - 1

\* C20: a Running tick that does not collide makes the body the new head
\* followed by the old body, whole and in its order when the head is on the
\* food, and without its last cell otherwise.
C20_BodyShift ==
  [][(op' = "gameLoop" /\ Running /\ InGrid(ahead) /\ ~onSnake(snake, ahead))
       => LET h == [x |-> snake[1].x + dx, y |-> snake[1].y + dy]
          IN IF h.x = food.x /\ h.y = food.y
             THEN snake' = <<h>> \o snake
             ELSE snake' = <<h>> \o SubSeq(snake, 1, Len(snake) - 1)]_vars

\* A body of three cells with a bend has made a plain move.
C20_Witness ==
  /\ op = "gameLoop" /\ event = "moved"
  /\ Len(snake) = 3
  /\ snake[1].x # snake[3].x /\ snake[1].y # snake[3].y

\* C21: a tick that runs on a Running game and leaves it Running ends with
\* the direction lock clear, whether or not a turn had set it; and in the
\* state such a tick leaves, a setDirection call with any direction but the
\* opposite of the current one is accepted.
C21_TickClearsLock ==
  [][/\ (op' = "gameLoop" /\ Running /\ ~gameOver' /\ ~paused')
          => ~directionLock'
     /\ (op = "gameLoop" /\ event \in {"moved", "ate", "ateGolden"})
          => \A d \in Dirs :
               (setDirection(d[1], d[2]) /\ ~(d[1] = -dx /\ d[2] = -dy))
                 => (dx' = d[1] /\ dy' = d[2] /\ event' = "turn")]_vars

\* A tick has moved the head by a direction turned to just before it (the
\* two cells behind the head lie on another axis), and the lock is clear.
C21_Witness ==
  /\ op = "gameLoop" /\ event = "moved" /\ Running
  /\ ~directionLock
  /\ Len(snake) >= 3
  /\ snake[1].x - snake[2].x # snake[2].x - snake[3].x

\* C22: the page becoming hidden pauses a Running game when auto-pause is
\* enabled and changes nothing when it is disabled or the game is paused or
\* over; the page becoming visible never clears paused; and neither these
\* events nor the auto-pause button change body, direction, score or food.
C22_VisibilityPause ==
  [][/\ op' = "hidden"
          => /\ UNCHANGED <<snake, dx, dy, score, food, gameOver>>
             /\ paused' = IF autoPauseEnabled /\ ~gameOver /\ ~paused
                           THEN TRUE ELSE paused
     /\ op' = "visible"
          => UNCHANGED <<snake, dx, dy, score, food, gameOver, paused>>
     /\ op' = "toggleAutoPause"
          => UNCHANGED <<snake, dx, dy, score, food, gameOver, paused>>]_vars

\* The page became hidden, with auto-pause disabled, on a Running game that
\* had grown: the game is still Running.
C22_Witness ==
  /\ op = "hidden" /\ event = "none"
  /\ ~autoPauseEnabled /\ Running
  /\ Len(snake) > 1

\* C23: gameOver and paused are never both true, whatever ticks,
\* setDirection calls, pause toggles, visibility changes and resets have
\* run; so every state is exactly one of Running, Paused and Over.
C23_LifecycleExclusive ==
  /\ ~(gameOver /\ paused)
  /\ Cardinality({l \in {"Running", "Paused", "Over"} :
                    \/ l = "Running" /\ ~gameOver /\ ~paused
                    \/ l = "Paused" /\ paused /\ ~gameOver
                    \/ l = "Over" /\ gameOver /\ ~paused}) = 1

\* The page became hidden, with auto-pause enabled, on a game that is over.
C23_Witness ==
  gameOver /\ op = "hidden" /\ autoPauseEnabled /\ Len(snake) > 1

\* C24: in every reachable state, whether Running, Paused or Over and
\* however long ago the food was spawned, the food is on no cell of the
\* body.
C24_FoodOffBody ==
  \A i \in 1..Len(snake) : ~(snake[i].x = food.x /\ snake[i].y = food.y)

\* A grown body has made a plain move that took its head next to the food.
C24_Witness ==
  /\ op = "gameLoop" /\ event = "moved"
  /\ Len(snake) >= 3
  /\ \/ snake[1].x = food.x /\ snake[1].y - food.y \in {-1, 1}
     \/ snake[1].y = food.y /\ snake[1].x - food.x \in {-1, 1}

\* C25: in every reachable state the body is a contiguous path: two cells
\* that follow each other differ by exactly 1 in exactly one coordinate.
C25_Contiguous ==
  \A i \in 1..(Len(snake) - 1) :
    \/ snake[i].x = snake[i + 1].x /\ snake[i].y - snake[i + 1].y \in {-1, 1}
    \/ snake[i].y = snake[i + 1].y /\ snake[i].x - snake[i + 1].x \in {-1, 1}

\* A body of five cells that bends twice.
C25_Witness ==
  /\ Len(snake) = 5
  /\ snake[1].x # snake[3].x /\ snake[1].y # snake[3].y
  /\ snake[3].x # snake[5].x /\ snake[3].y # snake[5].y

\* C26: in every reachable state whose body has 1, 2 or 3 cells, the cell
\* ahead of the head is no cell of the body, so that a tick can end in a
\* self-collision only when the body has 4 cells or more.
C26_NoSelfHitBelowFour ==
  /\ [](Len(snake) <= 3 =>
          \A i \in 1..Len(snake) :
            ~(snake[i].x = snake[1].x + dx /\ snake[i].y = snake[1].y + dy))
  /\ [][(op' = "gameLoop" /\ event' = "collided"
           /\ 0 <= snake[1].x + dx /\ snake[1].x + dx < tileCount
           /\ 0 <= snake[1].y + dy /\ snake[1].y + dy < tileCount)
          => Len(snake) >= 4]_vars

\* A turn has just been accepted on a Running body of three cells that
\* already bends.
C26_Witness ==
  /\ Len(snake) = 3 /\ Running
  /\ op = "setDirection" /\ event = "turn"
  /\ snake[1].x # snake[3].x /\ snake[1].y # snake[3].y

\* C27: in every reachable state Len(snake) - 1 <= score <= 3 * (Len(snake)
\* - 1); and the equality score = Len(snake) - 1 is kept by every step but
\* the eating of a golden food, so that it always holds where no food is
\* golden.
C27_ScoreLengthTie ==
  /\ [](Len(snake) - 1 <= score /\ score <= 3 * (Len(snake) - 1))
  /\ [][(score = Len(snake) - 1
           /\ ~(op' = "gameLoop" /\ Running /\ food.type = "golden"
                  /\ snake[1].x + dx = food.x /\ snake[1].y + dy = food.y))
          => score' = Len(snake') - 1]_vars

\* Two golden foods and a normal one have been eaten.
C27_Witness ==
  Len(snake) = 4 /\ score = 7

\* C28: in every reachable state the armed timer has the interval of the
\* speed curve for the current score, max(60, 140 - 12 * floor(score / 3));
\* a step that changes the score leaves a timer armed for the new score.
C28_TimerFollowsScore ==
  /\ timers # {}
  /\ \A t \in timers :
       t.ms = IF 140 - 12 * (score \div 3) > 60
              THEN 140 - 12 * (score \div 3) ELSE 60

\* An eating tick has taken the score from below 6 to 7, and the timer is
\* armed with 116 ms.
C28_Witness ==
  /\ event = "ateGolden" /\ score = 7
  /\ timers = {[id |-> intervalId, ms |-> 116]}

\* C30: a setDirection call with the current direction, made while the lock
\* is clear and the game is not over, is accepted: it sets the lock and
\* signals a turn, the direction staying as it is; and while the lock is
\* set, a call with any other direction is ignored.
C30_SameDirectionLocks ==
  [][/\ (setDirection(dx, dy) /\ ~directionLock /\ ~gameOver)
          => (directionLock' /\ event' = "turn" /\ UNCHANGED <<dx, dy>>)
     /\ (op = "setDirection" /\ event = "turn" /\ tickDir = <<dx, dy>>)
          => \A d \in Dirs :
               setDirection(d[1], d[2])
                 => (UNCHANGED <<dx, dy>> /\ event' = "none")]_vars

\* A call with the direction the last tick used has been accepted since
\* that tick and holds the lock.
C30_Witness ==
  /\ op = "setDirection" /\ event = "turn"
  /\ directionLock /\ Running
  /\ tickDir = <<dx, dy>>
  /\ Len(snake) > 1

\* C29: from a Running state, when ticks keep firing and no other handler
\* runs, the game is over after tileCount ticks at most: it is never still
\* Running once tileCount ticks have run, and it does become over.
C29_OverWithinTileCount ==
  /\ [](Running => ticksRun < tileCount)
  /\ [](ticksRun <= tileCount)
  /\ Running ~> gameOver

\* A run that took all of tileCount ticks: ten moves across the grid and
\* the collision with the wall.
C29_Witness ==
  gameOver /\ event = "collided" /\ ticksRun = tileCount
====
